---------------------------- MODULE Spec2Model ----------------------------
(***************************************************************************)
(* A model of the mixin kernel's genesis loader (kernel/genesis.go) and    *)
(* mint engine (kernel/mint.go).                                           *)
(*                                                                         *)
(* Amounts are common.Integer values counted in their smallest unit.  The  *)
(* source counts 10^8 units per token; the model counts Unit units per     *)
(* token so that every amount fits TLC's integers.  Timestamps are counted *)
(* in hours: the source only ever divides a timestamp by one hour or by    *)
(* one day.                                                                *)
(***************************************************************************)
EXTENDS Integers, Sequences, FiniteSets, TLC

VARIABLES
    \* ---- genesis loader: the store and the node ----
    stateNetwork,     \* store: state["network"], Absent or a network id
    storeSnapshots,   \* store: the snapshot lists SnapshotsLoadGenesis persisted
    ConsensusNodes,   \* node.ConsensusNodes
    networkId,        \* node.networkId
    TopoCounter,      \* node.TopoCounter
    lgCalls,          \* number of LoadGenesis calls so far
    lgFile,           \* index of the genesis file of the last LoadGenesis call
    lgResult,         \* what the last LoadGenesis call returned
    lgOps,            \* the store operations the last LoadGenesis call made
    \* ---- mint loop: the node, the store and the chain ----
    isMainnet,        \* node.isMainnet()
    custodianAt,      \* store: the timestamp from which ReadCustodian returns a custodian
    GraphTimestamp,   \* node.GraphTimestamp
    mintEnd,          \* the last timestamp of the behaviour
    mintDists,        \* store: the MintDistribution records, by ascending batch
    nodeWorks,        \* store: ListNodeWorks(cids, day-1), per node <<w[0], w[1]>>
    done,             \* node.done is closed
    mlState,          \* MintLoop: "running", "returned" or "panicked"
    mlc,              \* number of times node.mlc was closed
    ticks,            \* ticks of the ticker handled so far
    cache,            \* store: the transactions put by CachePutTransaction
    appended,         \* chain: the snapshots enqueued by AppendSelfEmpty
    last,             \* what the last tick or validation did
    \* ---- calls of the pure functions of the mint engine ----
    callIn,           \* the arguments and store readings of the last call
    callOut,          \* what the call returned
    \* ---- AggregateMintWork of one chain ----
    chainMainnet,     \* chain.node.isMainnet()
    chainRunning,     \* chain.running
    chainState,       \* chain.State is not nil
    CacheRound,       \* chain.State.CacheRound.Number
    workOffset,       \* store: what ReadWorkOffset(chain.ChainId) returns
    roundWorks,       \* store: the <<round, works>> WriteRoundWork has written
    round,            \* the local cursor of the loop
    crn,              \* the local crn of the iteration
    awSnapshots,      \* the local snapshots of the iteration: "none", "old", "new" or "nil"
    wrote,            \* WriteRoundWork returned success in this iteration
    awPc,             \* where AggregateMintWork is
    wlc,              \* number of times chain.wlc was closed
    \* ---- issuance of the universal mint over the days ----
    poolDist,         \* store: what ReadLastMintDistribution returns
    poolIssued        \* the sum of the amounts of the recorded mints

aggVars == <<chainMainnet, chainRunning, chainState, CacheRound, workOffset, roundWorks,
             round, crn, awSnapshots, wrote, awPc, wlc>>

genesisVars == <<stateNetwork, storeSnapshots, ConsensusNodes, networkId,
                 TopoCounter, lgCalls, lgFile, lgResult, lgOps>>

callVars == <<callIn, callOut>>

mintVars == <<isMainnet, custodianAt, GraphTimestamp, mintEnd, mintDists, nodeWorks,
              done, mlState, mlc, ticks, cache, appended, last>>

issueVars == <<poolDist, poolIssued>>

vars == <<genesisVars, mintVars, callVars, aggVars, issueVars>>

----------------------------------------------------------------------------
(* Bounds of the model *)

\* units per token of a common.Integer in the model (10^8 in the source)
Unit == 10

\* LoadGenesis calls in one behaviour (every boot of the node calls it once)
MaxLoadCalls == 3

\* node.Epoch, the genesis time, in hours (not aligned to a day)
Epoch == 34

\* accepted consensus nodes, NodesListWithoutState(timestamp, true)
NumNodes == 4

\* days of graph time one behaviour of the mint loop covers
MaxDays == 1

\* the highest batch the pool sizes are computed for
MaxPoolBatch == 1500

\* the highest raw work the clamp step is applied to
MaxRawWork == 60

\* ticks of the mint loop in one behaviour
MaxTicks == 2

\* the highest cache round number of the chain
MaxRound == 2

\* the highest batch of the issuance of the universal mint
MaxIssueBatch == 735

\* the most days between two consecutive mints of the issuance, apart from
\* the gaps of about a year
MaxGap == 2

----------------------------------------------------------------------------
(* common.Integer, as the specification's data model describes it *)

NewInteger(x) == x * Unit

\* x.Ration(y).Product(base): floor(x * base / y), for 0 <= x <= y, y > 0;
\* computed without forming x * base
RationProduct(x, y, base) == x * (base \div y) + (x * (base % y)) \div y

Min(a, b) == IF a < b THEN a ELSE b

RECURSIVE SumSeq(_)
SumSeq(q) == IF q = << >> THEN 0 ELSE Head(q) + SumSeq(Tail(q))

----------------------------------------------------------------------------
(* kernel/genesis.go *)

MinimumNodeCount == 7
PledgeAmount == 10000

Absent == 0

\* the public view key readGenesis derives from a public spend key:
\* NewKeyFromSeed(hash(spend) || hash(spend)).Public()
ViewKeyOf(spend) == 2 * spend + 1

Address(spend, view) == [spend |-> spend, view |-> view]
GoodAddress(spend) == Address(spend, ViewKeyOf(spend))

\* Address.String(): the encoding of both public keys
AddressString(a) == <<a.spend, a.view>>

Entry(a, balance) == [address |-> a, balance |-> balance]

\* seven distinct, well-formed nodes holding exactly the pledge
BaseNodes == [i \in 1..MinimumNodeCount |->
                 Entry(GoodAddress(i), NewInteger(PledgeAmount))]

ExtraNode == Entry(GoodAddress(MinimumNodeCount + 1), NewInteger(PledgeAmount))
RichNode == Entry(GoodAddress(MinimumNodeCount + 1), NewInteger(PledgeAmount) + 1)
PoorNode == Entry(GoodAddress(MinimumNodeCount + 1), NewInteger(PledgeAmount) - 1)
BadViewNode == Entry(Address(MinimumNodeCount + 1, ViewKeyOf(MinimumNodeCount + 1) + 1),
                     NewInteger(PledgeAmount))

File(epoch, nodes) == [readable |-> TRUE, epoch |-> epoch, nodes |-> nodes]

\* the genesis.json files LoadGenesis is called with
GenesisFiles ==
    << File(1, BaseNodes),                                       \* 1 valid
       File(2, BaseNodes),                                       \* 2 valid, other epoch
       File(1, [BaseNodes EXCEPT ![7] = RichNode]),              \* 3 valid, change output
       File(1, SubSeq(BaseNodes, 1, 6)),                         \* 4 six nodes
       File(1, Append(BaseNodes, ExtraNode)),                    \* 5 eight nodes
       File(1, [BaseNodes EXCEPT ![1] = PoorNode]),              \* 6 balance too low
       File(1, [BaseNodes EXCEPT ![7] = PoorNode]),              \* 7 balance too low
       File(1, [BaseNodes EXCEPT ![4] = BadViewNode]),           \* 8 wrong view key
       File(1, [BaseNodes EXCEPT ![7] = BaseNodes[1]]),          \* 9 duplicated address
       File(1, [BaseNodes EXCEPT ![2] = BaseNodes[1]]),          \* 10 duplicated address
       File(1, [BaseNodes EXCEPT ![2] = BaseNodes[1],
                                 ![5] = BadViewNode]),           \* 11 duplicate, then bad key
       [readable |-> FALSE, epoch |-> 0, nodes |-> << >>] >>     \* 12 unreadable

FileIds == 1..Len(GenesisFiles)

\* the loop of readGenesis over gns.Nodes from entry i on; inputsFilter is the
\* map of the addresses seen, which the loop reads and never writes
RECURSIVE readGenesisNodes(_, _, _)
readGenesisNodes(nodes, i, inputsFilter) ==
    IF i > Len(nodes) THEN "ok"
    ELSE LET in == nodes[i] IN
         IF in.balance < NewInteger(PledgeAmount) THEN "invalid genesis input amount"
         ELSE IF AddressString(in.address) \in inputsFilter THEN "duplicated genesis inputs"
         ELSE IF ViewKeyOf(in.address.spend) # in.address.view THEN "invalid node key format"
         ELSE readGenesisNodes(nodes, i + 1, inputsFilter)

readGenesis_NoCount(file) ==
    IF ~file.readable THEN "read error"
    ELSE readGenesisNodes(file.nodes, 1, {})

\* readGenesis: "ok" or the error it returns
readGenesis(file) ==
    IF ~file.readable THEN "read error"
    ELSE IF Len(file.nodes) # MinimumNodeCount THEN "invalid genesis inputs number"
    ELSE readGenesisNodes(file.nodes, 1, {})

\* crypto.NewHash(json.Marshal(gns)): one id per genesis content
NetworkIdOf(file) ==
    CHOOSE i \in FileIds : /\ GenesisFiles[i].readable
                           /\ GenesisFiles[i].epoch = file.epoch
                           /\ GenesisFiles[i].nodes = file.nodes

\* the snapshot LoadGenesis builds for node i of the genesis
GenesisSnapshot(file, nid, i, topo) ==
    LET in == file.nodes[i]
        remaining == in.balance - NewInteger(PledgeAmount)
        pledge == [type |-> "NodePledge",
                   script |-> (Len(file.nodes) * 2) \div 3 + 1,
                   amount |-> NewInteger(PledgeAmount),
                   keys |-> [d \in 1..Len(file.nodes) |-> AddressString(file.nodes[d].address)]]
        change == [type |-> "Script", script |-> 1, amount |-> remaining,
                   keys |-> <<AddressString(in.address)>>]
    IN [nodeId |-> <<AddressString(in.address), nid>>,
        index |-> i - 1,
        outputs |-> IF remaining > 0 THEN <<pledge, change>> ELSE <<pledge>>,
        extra |-> in.address.spend,
        round |-> 0,
        timestamp |-> file.epoch,
        topo |-> topo + i - 1]

\* one store operation of a LoadGenesis call and whether it returned an error
Op(name, err) == <<name, err>>

LoadGenesisStore_NoFoundCheck(file, getErr, loadErr, setErr) ==
    LET nid == NetworkIdOf(file)
        snapshots == [i \in 1..Len(file.nodes) |-> GenesisSnapshot(file, nid, i, TopoCounter)]
    IN IF getErr
       THEN /\ lgResult' = "StateGet error"
            /\ lgOps' = <<Op("StateGet", TRUE)>>
            /\ UNCHANGED <<stateNetwork, storeSnapshots, TopoCounter>>
       ELSE /\ TopoCounter' = TopoCounter + Len(file.nodes)
            /\ storeSnapshots' = Append(storeSnapshots, snapshots)
            /\ lgResult' = "ok"
            /\ lgOps' = <<Op("StateGet", FALSE), Op("SnapshotsLoadGenesis", FALSE),
                          Op("StateSet", FALSE)>>
            /\ stateNetwork' = nid

\* LoadGenesis from StateGet on (genesis.go:44-122), the genesis being read
LoadGenesisStore(file, getErr, loadErr, setErr) ==
    LET nid == NetworkIdOf(file)
        found == stateNetwork # Absent
        snapshots == [i \in 1..Len(file.nodes) |-> GenesisSnapshot(file, nid, i, TopoCounter)]
    IN IF getErr
       THEN /\ lgResult' = "StateGet error"
            /\ lgOps' = <<Op("StateGet", TRUE)>>
            /\ UNCHANGED <<stateNetwork, storeSnapshots, TopoCounter>>
       ELSE IF stateNetwork = nid
       THEN /\ lgResult' = "ok"
            /\ lgOps' = <<Op("StateGet", FALSE)>>
            /\ UNCHANGED <<stateNetwork, storeSnapshots, TopoCounter>>
       ELSE IF found
       THEN /\ lgResult' = "invalid genesis for network"
            /\ lgOps' = <<Op("StateGet", FALSE)>>
            /\ UNCHANGED <<stateNetwork, storeSnapshots, TopoCounter>>
       ELSE /\ TopoCounter' = TopoCounter + Len(file.nodes)
            /\ IF loadErr
               THEN /\ lgResult' = "SnapshotsLoadGenesis error"
                    /\ lgOps' = <<Op("StateGet", FALSE), Op("SnapshotsLoadGenesis", TRUE)>>
                    /\ UNCHANGED <<stateNetwork, storeSnapshots>>
               ELSE /\ storeSnapshots' = Append(storeSnapshots, snapshots)
                    /\ IF setErr
                       THEN /\ lgResult' = "StateSet error"
                            /\ lgOps' = <<Op("StateGet", FALSE),
                                          Op("SnapshotsLoadGenesis", FALSE),
                                          Op("StateSet", TRUE)>>
                            /\ UNCHANGED stateNetwork
                       ELSE /\ lgResult' = "ok"
                            /\ lgOps' = <<Op("StateGet", FALSE),
                                          Op("SnapshotsLoadGenesis", FALSE),
                                          Op("StateSet", FALSE)>>
                            /\ stateNetwork' = nid

\* LoadGenesis on genesis file f; getErr, loadErr and setErr tell whether
\* StateGet, SnapshotsLoadGenesis and StateSet return an error when called
LoadGenesis(f, getErr, loadErr, setErr) ==
    LET file == GenesisFiles[f]
        read == readGenesis(file)
    IN /\ lgCalls' = lgCalls + 1
       /\ lgFile' = f
       /\ IF read # "ok"
          THEN /\ lgResult' = read
               /\ lgOps' = << >>
               /\ UNCHANGED <<stateNetwork, storeSnapshots, ConsensusNodes,
                              networkId, TopoCounter>>
          ELSE /\ ConsensusNodes' = ConsensusNodes \o
                      [i \in 1..Len(file.nodes) |-> file.nodes[i].address]
               /\ networkId' = NetworkIdOf(file)
               /\ LoadGenesisStore(file, getErr, loadErr, setErr)

GenesisIdle ==
    /\ stateNetwork = Absent
    /\ storeSnapshots = << >>
    /\ ConsensusNodes = << >>
    /\ networkId = Absent
    /\ TopoCounter = 0
    /\ lgCalls = 0
    /\ lgFile = 0
    /\ lgResult = "none"
    /\ lgOps = << >>

NoCall == [fn |-> "none"]

CallIdle == callIn = NoCall /\ callOut = NoCall

Never == -1

MintIdle ==
    /\ isMainnet = FALSE
    /\ custodianAt = Never
    /\ GraphTimestamp = 0
    /\ mintEnd = 0
    /\ mintDists = << >>
    /\ nodeWorks = << >>
    /\ done = FALSE
    /\ mlState = "idle"
    /\ mlc = 0
    /\ ticks = 0
    /\ cache = {}
    /\ appended = << >>
    /\ last = [op |-> "none"]

AggIdle ==
    /\ chainMainnet = FALSE
    /\ chainRunning = FALSE
    /\ chainState = FALSE
    /\ CacheRound = 0
    /\ workOffset = 0
    /\ roundWorks = {}
    /\ round = 0
    /\ crn = 0
    /\ awSnapshots = "none"
    /\ wrote = FALSE
    /\ awPc = "idle"
    /\ wlc = 0

IssueIdle ==
    /\ poolDist = [batch |-> 0, amount |-> 0, group |-> ""]
    /\ poolIssued = 0

GenesisInit == GenesisIdle /\ MintIdle /\ CallIdle /\ AggIdle /\ IssueIdle

\* a boot of the node: LoadGenesis with some genesis file and store outcomes
Boot ==
    /\ lgCalls < MaxLoadCalls
    /\ UNCHANGED <<mintVars, callVars, aggVars, issueVars>>
    /\ \E f \in FileIds : \E getErr, loadErr, setErr \in BOOLEAN :
           LoadGenesis(f, getErr, loadErr, setErr)

GenesisNext == Boot

SpecGenesis == GenesisInit /\ [][GenesisNext]_vars

----------------------------------------------------------------------------
(* kernel/mint.go: constants *)

MainnetMintPeriodForkBatch == 72
MainnetMintPeriodForkTimeBegin == 6
MainnetMintPeriodForkTimeEnd == 18
MainnetMintWorkDistributionForkBatch == 729
MainnetMintTransactionV2ForkBatch == 739
MainnetMintTransactionV3ForkBatch == 1313

MintPool == NewInteger(500000)
MintYearShares == 10
MintYearBatches == 365

\* config.KernelMintTimeBegin and config.KernelMintTimeEnd
KernelMintTimeBegin == 7
KernelMintTimeEnd == 9

HoursPerDay == 24

----------------------------------------------------------------------------
(* kernel/mint.go: the pool model *)

\* the loop "for i := 0; i < years; i++ { pool = pool.Sub(pool.Div(MintYearShares)) }"
RECURSIVE PoolAfterYears(_, _)
PoolAfterYears(pool, years) ==
    IF years <= 0 THEN pool
    ELSE PoolAfterYears(pool - pool \div MintYearShares, years - 1)

\* the loop of poolSizeUniversal: <<mint, pool>> after the given years
RECURSIVE UniversalYears(_, _, _)
UniversalYears(mint, pool, years) ==
    IF years <= 0 THEN <<mint, pool>>
    ELSE LET year == pool \div MintYearShares
         IN UniversalYears(mint + year, pool - year, years - 1)

poolSizeUniversal_ForgetsYears(batch) ==
    LET mp == UniversalYears(0, MintPool, batch \div MintYearBatches)
        day == (mp[2] \div MintYearShares) \div MintYearBatches
        count == batch % MintYearBatches
        mint == IF count > 0 THEN day * count ELSE mp[1]
    IN IF mint > 0 THEN MintPool - mint ELSE MintPool

poolSizeUniversal(batch) ==
    LET mp == UniversalYears(0, MintPool, batch \div MintYearBatches)
        day == (mp[2] \div MintYearShares) \div MintYearBatches
        count == batch % MintYearBatches
        mint == IF count > 0 THEN mp[1] + day * count ELSE mp[1]
    IN IF mint > 0 THEN MintPool - mint ELSE MintPool

\* the loop of poolSizeLegacy
RECURSIVE LegacyYears(_, _, _)
LegacyYears(mint, pool, years) ==
    IF years <= 0 THEN <<mint, pool>>
    ELSE LET year == pool \div MintYearShares
         IN LegacyYears(mint + (year \div 10) * 9, pool - year, years - 1)

poolSizeLegacy_ElevenTenths(batch) ==
    LET mp == LegacyYears(0, MintPool, batch \div MintYearBatches)
        day == (mp[2] \div MintYearShares) \div MintYearBatches
        count == batch % MintYearBatches
        mint == IF count > 0 THEN mp[1] + ((day \div 10) * 11) * count ELSE mp[1]
    IN IF mint > 0 THEN MintPool - mint ELSE MintPool

poolSizeLegacy(batch) ==
    LET mp == LegacyYears(0, MintPool, batch \div MintYearBatches)
        day == (mp[2] \div MintYearShares) \div MintYearBatches
        count == batch % MintYearBatches
        mint == IF count > 0 THEN mp[1] + ((day \div 10) * 9) * count ELSE mp[1]
    IN IF mint > 0 THEN MintPool - mint ELSE MintPool

----------------------------------------------------------------------------
(* kernel/mint.go: the mint-possibility gates *)

NoMint == <<0, 0>>

\* a MintDistribution record; ReadLastMintDistribution on a store without
\* any returns the empty record
Dist(batch, amount, group) == [batch |-> batch, amount |-> amount, group |-> group]
NoDist == Dist(0, 0, "")

\* lines 453-466 and 506-519: the comparison of batch with the last distribution
MintForBatch_Reissue(batch, perBatch, dist, validateOnly) ==
    IF batch < dist.batch THEN NoMint
    ELSE IF batch = dist.batch THEN <<batch, IF validateOnly THEN dist.amount ELSE perBatch>>
    ELSE <<batch, perBatch * (batch - dist.batch)>>

MintForBatch_NoCatchUp(batch, perBatch, dist, validateOnly) ==
    IF batch < dist.batch THEN NoMint
    ELSE IF batch = dist.batch
    THEN (IF validateOnly THEN <<batch, dist.amount>> ELSE NoMint)
    ELSE <<batch, perBatch>>

MintForBatch(batch, perBatch, dist, validateOnly) ==
    IF batch < dist.batch THEN NoMint
    ELSE IF batch = dist.batch
    THEN (IF validateOnly THEN <<batch, dist.amount>> ELSE NoMint)
    ELSE <<batch, perBatch * (batch - dist.batch)>>

\* lines 423-436: whether checkUniversalMintPossibility gets past its early
\* returns and reads the last distribution
UniversalWindowOpen(timestamp) ==
    /\ timestamp > Epoch
    /\ LET hours == timestamp - Epoch
           batch == hours \div HoursPerDay
           kmb == KernelMintTimeBegin
           kme == KernelMintTimeEnd
       IN /\ ~(batch < 1)
          /\ ~(hours % HoursPerDay < kmb \/ hours % HoursPerDay > kme)

LegacyWindowOpen_Exclusive(mainnet, timestamp) ==
    /\ timestamp > Epoch
    /\ LET hours == timestamp - Epoch
           batch == hours \div HoursPerDay
           fork == mainnet /\ batch < MainnetMintPeriodForkBatch
           kmb == IF fork THEN MainnetMintPeriodForkTimeBegin ELSE KernelMintTimeBegin
           kme == IF fork THEN MainnetMintPeriodForkTimeEnd ELSE KernelMintTimeEnd
       IN /\ ~(batch < 1)
          /\ ~(hours % HoursPerDay <= kmb \/ hours % HoursPerDay >= kme)

\* lines 470-487: the same for checkLegacyMintPossibility
LegacyWindowOpen(mainnet, timestamp) ==
    /\ timestamp > Epoch
    /\ LET hours == timestamp - Epoch
           batch == hours \div HoursPerDay
           fork == mainnet /\ batch < MainnetMintPeriodForkBatch
           kmb == IF fork THEN MainnetMintPeriodForkTimeBegin ELSE KernelMintTimeBegin
           kme == IF fork THEN MainnetMintPeriodForkTimeEnd ELSE KernelMintTimeEnd
       IN /\ ~(batch < 1)
          /\ ~(hours % HoursPerDay < kmb \/ hours % HoursPerDay > kme)

checkUniversalMintPossibility_NoDecay(timestamp, validateOnly, dist, distErr) ==
    IF ~UniversalWindowOpen(timestamp) THEN NoMint
    ELSE LET batch == (timestamp - Epoch) \div HoursPerDay
             total == (MintPool \div MintYearShares) \div MintYearBatches
         IN IF distErr THEN NoMint
            ELSE MintForBatch(batch, total, dist, validateOnly)

\* checkUniversalMintPossibility; dist is what ReadLastMintDistribution
\* returns and distErr whether it returns an error
checkUniversalMintPossibility(timestamp, validateOnly, dist, distErr) ==
    IF ~UniversalWindowOpen(timestamp) THEN NoMint
    ELSE LET batch == (timestamp - Epoch) \div HoursPerDay
             pool == PoolAfterYears(MintPool, batch \div MintYearBatches) \div MintYearShares
             total == pool \div MintYearBatches
         IN IF distErr THEN NoMint
            ELSE MintForBatch(batch, total, dist, validateOnly)

\* checkLegacyMintPossibility
checkLegacyMintPossibility(mainnet, timestamp, validateOnly, dist, distErr) ==
    IF ~LegacyWindowOpen(mainnet, timestamp) THEN NoMint
    ELSE LET batch == (timestamp - Epoch) \div HoursPerDay
             pool == PoolAfterYears(MintPool, batch \div MintYearBatches) \div MintYearShares
             total == pool \div MintYearBatches
             light == total \div 10
             full == light * 9
         IN IF distErr THEN NoMint
            ELSE MintForBatch(batch, full, dist, validateOnly)

----------------------------------------------------------------------------
(* kernel/mint.go: the work distributor *)

\* What the store returns to one call of distributeKernelMintByWorks:
\*   thr        node.ConsensusThreshold(timestamp, false)
\*   worksAgg   nodes with w[0] > 0 in ListNodeWorks(cids, day)
\*   spacesAgg  checkpoints of ListAggregatedRoundSpaceCheckpoints with Batch >= batch
\*   works      ListNodeWorks(cids, day-1): per node <<w[0], w[1]>>
\*   err        the store read that returns an error, or "none"
Readings(thr, worksAgg, spacesAgg, works, err) ==
    [thr |-> thr, worksAgg |-> worksAgg, spacesAgg |-> spacesAgg,
     works |-> works, err |-> err]

Failed(msg) == [kind |-> "err", err |-> msg, works |-> << >>]
Panicked(msg) == [kind |-> "panic", err |-> msg, works |-> << >>]
Distributed(works) == [kind |-> "ok", err |-> "", works |-> works]

\* validateWorksAndSpacesAggregator: "" or the error
validateWorksAndSpacesAggregator(rd) ==
    IF rd.err = "ListNodeWorks(day)" THEN "store"
    ELSE IF rd.worksAgg < rd.thr THEN "works not ready yet"
    ELSE IF rd.err = "ListAggregatedRoundSpaceCheckpoints" THEN "store"
    ELSE IF rd.spacesAgg < rd.thr \/ rd.worksAgg # rd.spacesAgg THEN "spaces not ready yet"
    ELSE ""

\* lines 602-606: the raw work of a node from its <<w[0], w[1]>>
RawWork(w) ==
    LET work == (NewInteger(w[1]) * 120) \div 100
        sign == NewInteger(w[2])
    IN IF sign > 0 THEN work + sign ELSE work

\* lines 592-620: the loop over mints from node i on; st holds valid, minW,
\* maxW and totalW so far
RECURSIVE WorkStats(_, _, _)
WorkStats(raw, i, st) ==
    IF i > Len(raw) THEN st
    ELSE IF raw[i] = 0 THEN WorkStats(raw, i + 1, st)
    ELSE WorkStats(raw, i + 1,
             [valid |-> st.valid + 1,
              minW |-> IF st.minW = 0 THEN raw[i]
                       ELSE IF raw[i] < st.minW THEN raw[i] ELSE st.minW,
              maxW |-> IF raw[i] > st.maxW THEN raw[i] ELSE st.maxW,
              totalW |-> st.totalW + raw[i]])

Clamp_NoUpper(x, avg) ==
    LET lower == avg \div 7
    IN IF x >= avg THEN x \div 6 + (avg * 5) \div 6
       ELSE IF x <= lower THEN avg \div 7
       ELSE x

Clamp_ToUpper(x, avg) ==
    LET upper == avg * 7
        lower == avg \div 7
    IN IF x >= upper THEN upper
       ELSE IF x >= avg THEN x \div 6 + (avg * 5) \div 6
       ELSE IF x <= lower THEN avg \div 7
       ELSE x

\* lines 634-642: the clamp of one node's work against avg
Clamp(x, avg) ==
    LET upper == avg * 7
        lower == avg \div 7
    IN IF x >= upper THEN avg * 2
       ELSE IF x >= avg THEN x \div 6 + (avg * 5) \div 6
       ELSE IF x <= lower THEN avg \div 7
       ELSE x

\* lines 635-644: the clamp loop over the works of the nodes
ClampStep(works, avg) == [i \in 1..Len(works) |-> Clamp(works[i], avg)]

Shares_Ceil(clamped, base) ==
    LET totalW == SumSeq(clamped)
    IN [i \in 1..Len(clamped) |->
           IF (clamped[i] * (base % totalW)) % totalW = 0
           THEN RationProduct(clamped[i], totalW, base)
           ELSE RationProduct(clamped[i], totalW, base) + 1]

\* lines 633-649: totalW of the clamped works and each node's share of base
Shares(clamped, base) ==
    LET totalW == SumSeq(clamped)
    IN [i \in 1..Len(clamped) |-> RationProduct(clamped[i], totalW, base)]

\* distributeKernelMintByWorks over n accepted nodes
distributeKernelMintByWorks(n, base, timestamp, rd) ==
    LET epoch == Epoch \div HoursPerDay
        day == timestamp \div HoursPerDay
        ready == validateWorksAndSpacesAggregator(rd)
        raw == [i \in 1..n |-> RawWork(rd.works[i])]
        st == WorkStats(raw, 1, [valid |-> 0, minW |-> 0, maxW |-> 0, totalW |-> 0])
        rest == st.totalW - st.minW - st.maxW
        avg == rest \div (st.valid - 2)
        clamped == ClampStep(raw, avg)
    IN IF day < epoch THEN Panicked("invalid mint day")
       ELSE IF day - epoch = 0
       THEN (IF n = 0 THEN Panicked("division by zero")
             ELSE Distributed([i \in 1..n |-> base \div n]))
       ELSE IF ready # "" THEN Failed("not ready yet")
       ELSE IF rd.err = "ListNodeWorks(day-1)" THEN Failed("store")
       ELSE IF rd.err = "ReadNodeRoundSpacesForBatch" THEN Failed("store")
       ELSE IF st.valid < rd.thr THEN Failed("not valid")
       ELSE IF rest < 0 THEN Panicked("negative subtraction")
       ELSE IF st.valid - 2 <= 0 THEN Panicked("division by zero")
       ELSE IF avg = 0 THEN Failed("not valid")
       ELSE Distributed(Shares(clamped, base))


----------------------------------------------------------------------------
(* kernel/mint.go: the mint transaction builders *)

\* What the store returns to one call of a builder:
\*   dist, distErr  ReadLastMintDistribution
\*   dists          the MintDistribution records, by ascending batch
\*   rd             the readings of the distributor
\*   hack           whether TransactionMintWorkHacks[batch] is set
StoreView(dist, distErr, dists, rd, hack) ==
    [dist |-> dist, distErr |-> distErr, dists |-> dists, rd |-> rd, hack |-> hack]

\* store.ReadMintDistributions(offset, count): the first count records from
\* batch offset on
ReadMintDistributions(dists, offset, count) ==
    LET from == SelectSeq(dists, LAMBDA d : d.batch >= offset)
    IN SubSeq(from, 1, Min(count, Len(from)))

Output(to, amount, seed) == [to |-> to, amount |-> amount, seed |-> seed]

\* a mint transaction: its mint input (group, batch, amount) and its outputs
Tx(version, group, batch, amount, outputs) ==
    [version |-> version, group |-> group, batch |-> batch, amount |-> amount,
     outputs |-> outputs]

\* nil, because the gate gave no mint or because the distributor failed
NoTx(reason) == [kind |-> "nil", reason |-> reason, tx |-> "none"]
Built(tx) == [kind |-> "tx", reason |-> "", tx |-> tx]
BuildPanic(reason) == [kind |-> "panic", reason |-> reason, tx |-> "none"]

\* tx.PayloadHash()
PayloadHash(tx) == tx

\* the outputs to the kernel nodes, seeded by signer and "MINTKERNELNODE<batch>"
KernelOutputs(works, batch) ==
    [i \in 1..Len(works) |->
        Output(<<"payee", i>>, works[i], <<<<"signer", i>>, "MINTKERNELNODE", batch>>)]

Slashed(amount) == [panic |-> "", amount |-> amount]
SlashPanic(reason) == [panic |-> reason, amount |-> 0]

\* tryToSlashLegacyLightPool: the amount of the mint input afterwards
tryToSlashLegacyLightPool(mainnet, batch, group, amount, dists) ==
    IF ~mainnet \/ batch < MainnetMintTransactionV3ForkBatch THEN Slashed(amount)
    ELSE LET mints == ReadMintDistributions(dists, batch - 1, 1)
             old == mints[1].batch
             lightSlash == poolSizeLegacy(old) - poolSizeUniversal(old)
         IN IF Len(mints) = 0 THEN SlashPanic("index out of range")
            ELSE IF mints[1].batch + 1 # batch THEN SlashPanic("tryToSlashLegacyLightPool")
            ELSE IF mints[1].group = group THEN Slashed(amount)
            ELSE IF lightSlash < 0 THEN SlashPanic("negative subtraction")
            ELSE Slashed(amount + lightSlash)

\* lines 175-217 of buildUniversalMintTransaction: the transaction from the
\* gate's (batch, amount) and the distributor's mints
UniversalTx_NoLight(mainnet, custodian, batch, amount, mints, dists) ==
    LET kernel == KernelOutputs(mints, batch)
        safe == (amount \div 10) * 4
        slash == tryToSlashLegacyLightPool(mainnet, batch, "UNIVERSAL", amount, dists)
        safeOut == Output(custodian, safe, <<custodian, "MINTCUSTODIANACCOUNT", batch>>)
    IN IF slash.panic # "" THEN BuildPanic(slash.panic)
       ELSE Built(Tx(2, "UNIVERSAL", batch, slash.amount, kernel \o <<safeOut>>))

UniversalTx(mainnet, custodian, batch, amount, mints, dists) ==
    LET kernel == KernelOutputs(mints, batch)
        total1 == SumSeq(mints)
        safe == (amount \div 10) * 4
        total == total1 + safe
        slash == tryToSlashLegacyLightPool(mainnet, batch, "UNIVERSAL", amount, dists)
        light == slash.amount - total
        safeOut == Output(custodian, safe, <<custodian, "MINTCUSTODIANACCOUNT", batch>>)
        lightOut == Output("light", light, <<"light", "MINTLIGHTACCOUNT", batch>>)
    IN IF total1 > amount THEN BuildPanic("overshoot")
       ELSE IF total > amount THEN BuildPanic("overshoot")
       ELSE IF slash.panic # "" THEN BuildPanic(slash.panic)
       ELSE IF light < 0 THEN BuildPanic("negative subtraction")
       ELSE Built(Tx(2, "UNIVERSAL", batch, slash.amount, kernel \o <<safeOut, lightOut>>))

buildUniversalMintTransaction_MulFirst(mainnet, custodianRequest, timestamp, validateOnly, n, sv) ==
    LET gate == checkUniversalMintPossibility(timestamp, validateOnly, sv.dist, sv.distErr)
        batch == gate[1]
        amount == gate[2]
        kernel == (amount * 5) \div 10
        mints == distributeKernelMintByWorks(n, kernel, timestamp, sv.rd)
        custodian == IF custodianRequest # "nil" THEN custodianRequest ELSE "domain"
    IN IF amount <= 0 \/ batch <= 0 THEN NoTx("no mint")
       ELSE IF mints.kind = "err" THEN NoTx("distributor")
       ELSE IF mints.kind = "panic" THEN BuildPanic(mints.err)
       ELSE UniversalTx(mainnet, custodian, batch, amount, mints.works, sv.dists)

\* buildUniversalMintTransaction over n accepted nodes; custodianRequest is
\* "nil" or the custodian account of the request
buildUniversalMintTransaction(mainnet, custodianRequest, timestamp, validateOnly, n, sv) ==
    LET gate == checkUniversalMintPossibility(timestamp, validateOnly, sv.dist, sv.distErr)
        batch == gate[1]
        amount == gate[2]
        kernel == (amount \div 10) * 5
        mints == distributeKernelMintByWorks(n, kernel, timestamp, sv.rd)
        custodian == IF custodianRequest # "nil" THEN custodianRequest ELSE "domain"
    IN IF amount <= 0 \/ batch <= 0 THEN NoTx("no mint")
       ELSE IF mints.kind = "err" THEN NoTx("distributor")
       ELSE IF mints.kind = "panic" THEN BuildPanic(mints.err)
       ELSE UniversalTx(mainnet, custodian, batch, amount, mints.works, sv.dists)

LegacyTx_NoDiff(batch, amount, mints) ==
    LET kernel == KernelOutputs(mints, batch)
        total == SumSeq(mints)
    IN IF total > amount THEN BuildPanic("overshoot")
       ELSE Built(Tx(2, "KERNELNODE", batch, amount, kernel))

\* lines 331-354 of buildLegacyKerneNodeMintTransaction
LegacyTx(batch, amount, mints) ==
    LET kernel == KernelOutputs(mints, batch)
        total == SumSeq(mints)
        diff == amount - total
        diffOut == Output("light", diff, <<"light", "MINTKERNELNODE", batch, "DIFF">>)
    IN IF total > amount THEN BuildPanic("overshoot")
       ELSE IF diff > 0 THEN Built(Tx(2, "KERNELNODE", batch, amount, kernel \o <<diffOut>>))
       ELSE Built(Tx(2, "KERNELNODE", batch, amount, kernel))

\* buildLegacyKerneNodeMintTransaction; the pinned transactions of
\* TransactionMintWorkHacks and the transactions of buildMintTransactionV1
\* are kept opaque (version 0 and 1, no outputs listed)
buildLegacyKerneNodeMintTransaction(mainnet, timestamp, validateOnly, n, sv) ==
    LET gate == checkLegacyMintPossibility(mainnet, timestamp, validateOnly, sv.dist, sv.distErr)
        batch == gate[1]
        amount == gate[2]
        mints == distributeKernelMintByWorks(n, amount, timestamp, sv.rd)
    IN IF amount <= 0 \/ batch <= 0 THEN NoTx("no mint")
       ELSE IF sv.hack /\ mainnet THEN Built(Tx(0, "KERNELNODE", batch, amount, << >>))
       ELSE IF mainnet /\ batch < MainnetMintTransactionV2ForkBatch
       THEN Built(Tx(1, "KERNELNODE", batch, amount, << >>))
       ELSE IF mints.kind = "err" THEN NoTx("distributor")
       ELSE IF mints.kind = "panic" THEN BuildPanic(mints.err)
       ELSE LegacyTx(batch, amount, mints.works)


----------------------------------------------------------------------------
(* Calls of the gates, the distributor and the builders on bounded inputs *)

HourOfBatch(batch, hour) == Epoch + HoursPerDay * batch + hour

\* the amount one day's mint of the group records for batch b
DayAmount(b, group) ==
    IF group = "KERNELNODE"
    THEN checkLegacyMintPossibility(FALSE, HourOfBatch(b, KernelMintTimeBegin), FALSE,
                                    Dist(b - 1, 0, group), FALSE)[2]
    ELSE checkUniversalMintPossibility(HourOfBatch(b, KernelMintTimeBegin), FALSE,
                                       Dist(b - 1, 0, group), FALSE)[2]

DistOf(b, group) == Dist(b, DayAmount(b, group), group)

LastOf(dists) == IF Len(dists) = 0 THEN NoDist ELSE dists[Len(dists)]

GateBatches == {0, 1, 2, 3, 71, 72, 73, 364, 365, 366, 730, 1313}

GateTimes == {Epoch - 1, Epoch, Epoch + 1}
             \cup {HourOfBatch(b, h) : b \in GateBatches, h \in 0..(HoursPerDay - 1)}

GateDists == {NoDist} \cup {DistOf(b, g) : b \in {1, 2, 71, 72, 365, 1312},
                                            g \in {"KERNELNODE", "UNIVERSAL"}}

GateInputs ==
    [fn : {"gate"}, mainnet : BOOLEAN, timestamp : GateTimes, dist : GateDists,
     distErr : BOOLEAN]

WorkPairs == {<<0, 0>>, <<1, 0>>, <<0, 3>>, <<40, 2>>}

WorkVectors == [1..NumNodes -> WorkPairs]

StoreErrors == {"ListNodeWorks(day)", "ListAggregatedRoundSpaceCheckpoints",
                "ListNodeWorks(day-1)", "ReadNodeRoundSpacesForBatch"}

\* the readings of the aggregates for threshold thr: ready, works behind,
\* spaces behind, and each store error
ReadingsFor(thr, works) ==
    {Readings(thr, NumNodes, NumNodes, works, "none"),
     Readings(thr, thr - 1, thr - 1, works, "none"),
     Readings(thr, NumNodes, thr - 1, works, "none"),
     Readings(thr, NumNodes, NumNodes - 1, works, "none")}
    \cup {Readings(thr, NumNodes, NumNodes, works, e) : e \in StoreErrors}

DistributeTimes == {(Epoch \div HoursPerDay) * HoursPerDay - 1, Epoch + 1,
                    HourOfBatch(1, KernelMintTimeBegin)}

DistributeBases == {1, (DayAmount(1, "UNIVERSAL") \div 10) * 5, NewInteger(700)}

DistributeInputs ==
    UNION {[fn : {"distribute"}, base : DistributeBases, timestamp : DistributeTimes,
            rd : ReadingsFor(thr, w)] : thr \in 1..NumNodes, w \in WorkVectors}

\* the histories of recorded mints the builders are called on
BuildHistories ==
    {<< >>,
     <<DistOf(1, "UNIVERSAL")>>,
     <<DistOf(1, "KERNELNODE")>>,
     <<DistOf(738, "KERNELNODE")>>,
     <<DistOf(738, "KERNELNODE"), DistOf(739, "KERNELNODE")>>,
     <<DistOf(1311, "KERNELNODE")>>,
     <<DistOf(1311, "KERNELNODE"), DistOf(1312, "KERNELNODE")>>,
     <<DistOf(1311, "KERNELNODE"), DistOf(1312, "UNIVERSAL")>>,
     <<DistOf(1312, "UNIVERSAL"), DistOf(1313, "UNIVERSAL")>>}

BuildTimes == {HourOfBatch(b, h) : b \in {1, 2, 739, 740, 1312, 1313, 1314},
                                   h \in {MainnetMintPeriodForkTimeBegin, KernelMintTimeBegin}}

EqualWorks == [i \in 1..NumNodes |-> <<1, 0>>]
SkewedWorks == [i \in 1..NumNodes |-> IF i = 1 THEN <<40, 2>>
                                       ELSE IF i = 2 THEN <<0, 0>> ELSE <<1, 3>>]
IdleWorks == [i \in 1..NumNodes |-> IF i <= 2 THEN <<1, 0>> ELSE <<0, 0>>]

Threshold == (NumNodes * 2) \div 3 + 1

BuildReadings ==
    {Readings(Threshold, NumNodes, NumNodes, w, "none") : w \in {EqualWorks, SkewedWorks}}
    \cup {Readings(Threshold, NumNodes, NumNodes - 1, EqualWorks, "none"),
          Readings(2, NumNodes, NumNodes, IdleWorks, "none")}

BuildInputs ==
    UNION {[fn : {"build"}, path : {"universal", "legacy"}, mainnet : BOOLEAN,
            custodian : {"nil", "custodian"}, timestamp : BuildTimes,
            validateOnly : BOOLEAN,
            sv : {StoreView(LastOf(h), e, h, rd, hack) :
                    e \in BOOLEAN, rd \in BuildReadings, hack \in BOOLEAN}]
           : h \in BuildHistories}

\* the batches the pool sizes are computed for
PoolInputs == [fn : {"pool"}, batch : 0..MaxPoolBatch]

\* the averages and vectors of works the clamp step is applied to
ClampAvgs == {1, 6, 7, 8}

ClampInputs == [fn : {"clamp"}, avg : ClampAvgs, works : [1..2 -> 0..MaxRawWork]]

CallsInit ==
    /\ GenesisIdle
    /\ MintIdle
    /\ AggIdle
    /\ IssueIdle
    /\ callIn \in GateInputs \cup DistributeInputs \cup BuildInputs \cup ClampInputs
                  \cup PoolInputs
    /\ callOut = NoCall

GateCall ==
    /\ callIn.fn = "gate" /\ callOut.fn = "none"
    /\ callOut' =
         [fn |-> "gate",
          universal |-> [vo \in BOOLEAN |->
              checkUniversalMintPossibility(callIn.timestamp, vo, callIn.dist, callIn.distErr)],
          legacy |-> [vo \in BOOLEAN |->
              checkLegacyMintPossibility(callIn.mainnet, callIn.timestamp, vo,
                                         callIn.dist, callIn.distErr)]]
    /\ UNCHANGED <<callIn, genesisVars, mintVars, aggVars, issueVars>>

DistributeCall ==
    /\ callIn.fn = "distribute" /\ callOut.fn = "none"
    /\ callOut' = [fn |-> "distribute",
                   r |-> distributeKernelMintByWorks(NumNodes, callIn.base,
                                                     callIn.timestamp, callIn.rd)]
    /\ UNCHANGED <<callIn, genesisVars, mintVars, aggVars, issueVars>>

BuildCall ==
    /\ callIn.fn = "build" /\ callOut.fn = "none"
    /\ callOut' = [fn |-> "build",
                   r |-> IF callIn.path = "universal"
                         THEN buildUniversalMintTransaction(callIn.mainnet, callIn.custodian,
                                  callIn.timestamp, callIn.validateOnly, NumNodes, callIn.sv)
                         ELSE buildLegacyKerneNodeMintTransaction(callIn.mainnet,
                                  callIn.timestamp, callIn.validateOnly, NumNodes, callIn.sv)]
    /\ UNCHANGED <<callIn, genesisVars, mintVars, aggVars, issueVars>>

\* the clamp step, and the clamp step on its own result
ClampCall ==
    /\ callIn.fn = "clamp" /\ callOut.fn = "none"
    /\ callOut' = [fn |-> "clamp",
                   once |-> ClampStep(callIn.works, callIn.avg),
                   twice |-> ClampStep(ClampStep(callIn.works, callIn.avg), callIn.avg)]
    /\ UNCHANGED <<callIn, genesisVars, mintVars, aggVars, issueVars>>

\* the pool sizes of a batch and of the next batch
PoolCall ==
    /\ callIn.fn = "pool" /\ callOut.fn = "none"
    /\ callOut' = [fn |-> "pool",
                   universal |-> poolSizeUniversal(callIn.batch),
                   universalNext |-> poolSizeUniversal(callIn.batch + 1),
                   legacy |-> poolSizeLegacy(callIn.batch),
                   legacyNext |-> poolSizeLegacy(callIn.batch + 1)]
    /\ UNCHANGED <<callIn, genesisVars, mintVars, aggVars, issueVars>>

CallsNext == GateCall \/ DistributeCall \/ BuildCall \/ ClampCall \/ PoolCall

SpecCalls == CallsInit /\ [][CallsNext]_vars


----------------------------------------------------------------------------
(* kernel/mint.go: MintLoop, tryToMintUniversal, tryToMintKernelNodeLegacy
   and validateMintSnapshot *)

\* store.ReadCustodian(timestamp): the custodian request in force, or "nil"
ReadCustodian(timestamp) ==
    IF custodianAt # Never /\ timestamp >= custodianAt THEN "custodian" ELSE "nil"

\* what one tick reads from the store, fail naming the step that returns an
\* error if the tick gets to it
TickFailures == {"none", "ReadCustodian", "ReadLastMintDistribution", "not ready yet",
                 "ListNodeWorks(day-1)", "SignInput", "Validate",
                 "CachePutTransaction", "AppendSelfEmpty"}

TickReadings(fail) ==
    Readings(Threshold,
             IF fail = "not ready yet" THEN Threshold - 1 ELSE NumNodes,
             NumNodes, nodeWorks,
             IF fail = "ListNodeWorks(day-1)" THEN fail ELSE "none")

\* no batch of these histories is in TransactionMintWorkHacks
TickView(fail) ==
    StoreView(LastOf(mintDists), fail = "ReadLastMintDistribution", mintDists,
              TickReadings(fail), FALSE)

\* the outcome of a tick: what it returned ("nil", "err" or "panic"), the
\* steps it made, the errors its steps returned, and the transaction built
Outcome(result, steps, errs, built) ==
    [result |-> result, steps |-> steps, errs |-> errs, built |-> built]

tryToMint_IgnoresValidate(built, fail, errs) ==
    IF built.kind = "panic" THEN Outcome("panic", <<"build">>, errs, built)
    ELSE IF built.kind = "nil" THEN Outcome("nil", <<"build">>, errs, built)
    ELSE IF fail = "SignInput"
    THEN Outcome("err", <<"build", "SignInput">>, errs \cup {fail}, built)
    ELSE IF fail = "CachePutTransaction"
    THEN Outcome("err", <<"build", "SignInput", "Validate", "CachePutTransaction">>,
                 errs \cup {fail}, built)
    ELSE IF fail = "AppendSelfEmpty"
    THEN Outcome("err", <<"build", "SignInput", "Validate", "CachePutTransaction",
                          "AppendSelfEmpty">>, errs \cup {fail}, built)
    ELSE Outcome("nil", <<"build", "SignInput", "Validate", "CachePutTransaction",
                          "AppendSelfEmpty">>,
                 IF fail = "Validate" THEN errs \cup {fail} ELSE errs, built)

\* tryToMintUniversal and tryToMintKernelNodeLegacy after the build
tryToMint(built, fail, errs) ==
    IF built.kind = "panic" THEN Outcome("panic", <<"build">>, errs, built)
    ELSE IF built.kind = "nil" THEN Outcome("nil", <<"build">>, errs, built)
    ELSE IF fail = "SignInput"
    THEN Outcome("err", <<"build", "SignInput">>, errs \cup {fail}, built)
    ELSE IF fail = "Validate"
    THEN Outcome("err", <<"build", "SignInput", "Validate">>, errs \cup {fail}, built)
    ELSE IF fail = "CachePutTransaction"
    THEN Outcome("err", <<"build", "SignInput", "Validate", "CachePutTransaction">>,
                 errs \cup {fail}, built)
    ELSE IF fail = "AppendSelfEmpty"
    THEN Outcome("err", <<"build", "SignInput", "Validate", "CachePutTransaction",
                          "AppendSelfEmpty">>, errs \cup {fail}, built)
    ELSE Outcome("nil", <<"build", "SignInput", "Validate", "CachePutTransaction",
                          "AppendSelfEmpty">>, errs, built)

\* the errors the store returns to the build of a tick
BuildErrors(legacy, fail, built) ==
    (IF fail = "ReadLastMintDistribution"
        /\ (IF legacy THEN LegacyWindowOpen(isMainnet, GraphTimestamp)
                      ELSE UniversalWindowOpen(GraphTimestamp))
     THEN {fail} ELSE {})
    \cup (IF built.kind = "nil" /\ built.reason = "distributor" THEN {"distributor"} ELSE {})

\* lines 118-128: the ticker case of MintLoop
TickOutcome(fail) ==
    LET cur == ReadCustodian(GraphTimestamp)
        legacy == cur = "nil" /\ isMainnet
        built == IF legacy
                 THEN buildLegacyKerneNodeMintTransaction(isMainnet, GraphTimestamp, FALSE,
                                                          NumNodes, TickView(fail))
                 ELSE buildUniversalMintTransaction(isMainnet, cur, GraphTimestamp, FALSE,
                                                    NumNodes, TickView(fail))
    IN IF fail = "ReadCustodian"
       THEN Outcome("panic", <<"ReadCustodian">>, {fail}, NoTx("no mint"))
       ELSE tryToMint(built, fail, BuildErrors(legacy, fail, built))

MintLoopAfter_StopOnError(out) ==
    IF out.result = "nil" THEN "running" ELSE "panicked"

\* lines 113-130: the loop goes on after a tick unless the tick panicked
MintLoopAfter(out) ==
    IF out.result = "panic" THEN "panicked" ELSE "running"

Snapshot(tx, timestamp) == [tx |-> tx, timestamp |-> timestamp]

\* MintLoop: one tick of the ticker
Tick ==
    /\ mlState = "running"
    /\ ticks < MaxTicks
    /\ \E fail \in TickFailures :
         LET out == TickOutcome(fail)
             put == "CachePutTransaction" \in {out.steps[i] : i \in 1..Len(out.steps)}
                       /\ fail # "CachePutTransaction"
             sent == "AppendSelfEmpty" \in {out.steps[i] : i \in 1..Len(out.steps)}
                       /\ fail # "AppendSelfEmpty"
         IN /\ ticks' = ticks + 1
            /\ mlState' = MintLoopAfter(out)
            /\ mlc' = IF MintLoopAfter(out) = "panicked" THEN mlc + 1 ELSE mlc
            /\ cache' = IF put THEN cache \cup {PayloadHash(out.built.tx)} ELSE cache
            /\ appended' = IF sent THEN Append(appended, Snapshot(out.built.tx, GraphTimestamp))
                           ELSE appended
            /\ last' = [op |-> "tick", fail |-> fail, out |-> out,
                        timestamp |-> GraphTimestamp, dist |-> LastOf(mintDists)]
    /\ UNCHANGED <<isMainnet, custodianAt, GraphTimestamp, mintEnd, mintDists, nodeWorks,
                   done, genesisVars, callVars, aggVars, issueVars>>

\* close(node.done)
Shutdown ==
    /\ mlState = "running" /\ ~done
    /\ done' = TRUE
    /\ UNCHANGED <<isMainnet, custodianAt, GraphTimestamp, mintEnd, mintDists, nodeWorks,
                   mlState, mlc, ticks, cache, appended, last, genesisVars, callVars, aggVars, issueVars>>

\* MintLoop: the case <-node.done, and the deferred close(node.mlc)
MintLoopReturn ==
    /\ mlState = "running" /\ done
    /\ mlState' = "returned"
    /\ mlc' = mlc + 1
    /\ UNCHANGED <<isMainnet, custodianAt, GraphTimestamp, mintEnd, mintDists, nodeWorks,
                   done, ticks, cache, appended, last, genesisVars, callVars, aggVars, issueVars>>

\* the graph time moves on along the walk 6h, 8h, 6h of the next day, ...:
\* at 6h only the legacy window after the period fork is open, at 8h both
HourAfter(timestamp) ==
    IF (timestamp - Epoch) % HoursPerDay = MainnetMintPeriodForkTimeBegin
    THEN timestamp + (KernelMintTimeBegin + 1 - MainnetMintPeriodForkTimeBegin)
    ELSE timestamp + HoursPerDay - (KernelMintTimeBegin + 1 - MainnetMintPeriodForkTimeBegin)

AdvanceTime ==
    /\ HourAfter(GraphTimestamp) <= mintEnd
    /\ GraphTimestamp' = HourAfter(GraphTimestamp)
    /\ UNCHANGED <<isMainnet, custodianAt, mintEnd, mintDists, nodeWorks, done, mlState,
                   mlc, ticks, cache, appended, last, genesisVars, callVars, aggVars, issueVars>>

\* what a validation reads from the store
ValidationView ==
    StoreView(LastOf(mintDists), FALSE, mintDists,
              Readings(Threshold, NumNodes, NumNodes, nodeWorks, "none"), FALSE)

\* validateMintSnapshot(snap, tx) with snap.Timestamp = timestamp: "" or the
\* error returned, "panic" if the build panics
validateMintSnapshot(timestamp, tx, sv) ==
    LET cur == ReadCustodian(timestamp)
        legacy == cur = "nil" /\ isMainnet
        signed == IF legacy
                  THEN buildLegacyKerneNodeMintTransaction(isMainnet, timestamp, TRUE,
                                                           NumNodes, sv)
                  ELSE buildUniversalMintTransaction(isMainnet, cur, timestamp, TRUE,
                                                     NumNodes, sv)
    IN IF signed.kind = "panic" THEN "panic"
       ELSE IF signed.kind = "nil"
       THEN (IF legacy THEN "no legacy mint available" ELSE "no universal mint available")
       ELSE IF PayloadHash(tx) # PayloadHash(signed.tx) THEN "malformed mint transaction"
       ELSE ""

\* the consensus layer validates an enqueued mint snapshot
ValidateMint ==
    /\ \E i \in 1..Len(appended) :
          last' = [op |-> "validate", snap |-> appended[i], dist |-> LastOf(mintDists),
                   result |-> validateMintSnapshot(appended[i].timestamp, appended[i].tx,
                                                   ValidationView)]
    /\ UNCHANGED <<isMainnet, custodianAt, GraphTimestamp, mintEnd, mintDists, nodeWorks,
                   done, mlState, mlc, ticks, cache, appended, genesisVars, callVars, aggVars, issueVars>>

\* the consensus layer accepts an enqueued mint snapshot that validates and
\* the store records its MintDistribution
RecordMint ==
    /\ \E i \in 1..Len(appended) :
          LET tx == appended[i].tx
          IN /\ tx.batch > LastOf(mintDists).batch
             /\ validateMintSnapshot(appended[i].timestamp, tx, ValidationView) = ""
             /\ mintDists' = Append(mintDists, Dist(tx.batch, tx.amount, tx.group))
    /\ UNCHANGED <<isMainnet, custodianAt, GraphTimestamp, mintEnd, nodeWorks, done,
                   mlState, mlc, ticks, cache, appended, last, genesisVars, callVars, aggVars, issueVars>>

\* the networks and histories the mint loop starts on: a fresh network, a
\* fresh mainnet, mainnet on the day before the transaction V2 fork, and
\* mainnet on the day before the V3 fork with the custodian arriving never or
\* on the day of the fork
MintStarts ==
    {[mainnet |-> FALSE, dists |-> << >>, batch |-> 0, custodianAt |-> c]
        : c \in {Never, 0}}
    \cup {[mainnet |-> TRUE, dists |-> << >>, batch |-> 0, custodianAt |-> Never],
          [mainnet |-> TRUE,
           dists |-> <<DistOf(MainnetMintTransactionV2ForkBatch - 1, "KERNELNODE")>>,
           batch |-> MainnetMintTransactionV2ForkBatch - 1, custodianAt |-> Never]}
    \cup {[mainnet |-> TRUE,
           dists |-> <<DistOf(MainnetMintTransactionV3ForkBatch - 1, "KERNELNODE")>>,
           batch |-> MainnetMintTransactionV3ForkBatch - 1, custodianAt |-> c]
        : c \in {Never, HourOfBatch(MainnetMintTransactionV3ForkBatch, 0)}}

MintInit ==
    /\ GenesisIdle
    /\ CallIdle
    /\ AggIdle
    /\ IssueIdle
    /\ \E start \in MintStarts :
          /\ isMainnet = start.mainnet
          /\ custodianAt = start.custodianAt
          /\ mintDists = start.dists
          /\ GraphTimestamp = HourOfBatch(start.batch, MainnetMintPeriodForkTimeBegin)
          /\ mintEnd = HourOfBatch(start.batch + MaxDays, KernelMintTimeBegin + 1)
    /\ nodeWorks \in {EqualWorks, SkewedWorks}
    /\ done = FALSE
    /\ mlState = "running"
    /\ mlc = 0
    /\ ticks = 0
    /\ cache = {}
    /\ appended = << >>
    /\ last = [op |-> "none"]

MintNext ==
    \/ Tick
    \/ Shutdown
    \/ MintLoopReturn
    \/ AdvanceTime
    \/ ValidateMint
    \/ RecordMint

SpecMint == MintInit /\ [][MintNext]_vars


----------------------------------------------------------------------------
(* kernel/mint.go: AggregateMintWork *)

AggVarsButPc == <<chainMainnet, chainRunning, chainState, CacheRound, workOffset,
                  roundWorks, round, crn, awSnapshots, wrote>>

\* a panic: the deferred close(chain.wlc) runs
AggPanic ==
    /\ awPc' = "panicked"
    /\ wlc' = wlc + 1

OuterLoopEnds_AfterState == ~chainRunning /\ chainState

\* line 55: for chain.running
OuterLoopEnds == ~chainRunning

\* lines 46-49: ReadWorkOffset
AggStart ==
    /\ awPc = "start"
    /\ \E err \in BOOLEAN :
          IF err
          THEN AggPanic /\ UNCHANGED AggVarsButPc
          ELSE /\ round' = workOffset
               /\ awPc' = "outer"
               /\ UNCHANGED <<chainMainnet, chainRunning, chainState, CacheRound, workOffset,
                              roundWorks, crn, awSnapshots, wrote, wlc>>
    /\ UNCHANGED <<genesisVars, mintVars, callVars, issueVars>>

\* lines 55-81: the head of the outer loop up to the read of the snapshots
\* of the round; read is what ReadSnapshotWorksForNodeRound returns: an
\* error, no snapshot, or snapshots from before or after the day leap fork
AggIterate ==
    /\ awPc = "outer"
    /\ IF OuterLoopEnds
       THEN /\ awPc' = "stopped"
            /\ wlc' = wlc + 1
            /\ UNCHANGED AggVarsButPc
       ELSE IF ~chainState
       THEN UNCHANGED aggVars
       ELSE IF CacheRound < round
       THEN /\ AggPanic
            /\ crn' = CacheRound
            /\ UNCHANGED <<chainMainnet, chainRunning, chainState, CacheRound, workOffset,
                           roundWorks, round, awSnapshots, wrote>>
       ELSE \E read \in {"err", "empty", "old", "new"} :
               /\ crn' = CacheRound
               /\ wrote' = FALSE
               /\ IF read \in {"err", "empty"}
                  THEN UNCHANGED <<awSnapshots, awPc>>
                  ELSE awSnapshots' = read /\ awPc' = "inner"
               /\ UNCHANGED <<chainMainnet, chainRunning, chainState, CacheRound,
                              workOffset, roundWorks, round, wlc>>
    /\ UNCHANGED <<genesisVars, mintVars, callVars, issueVars>>

\* lines 97-101: after the inner loop
AfterWrite ==
    /\ round' = IF round < crn THEN round + 1 ELSE round
    /\ awPc' = "outer"

\* lines 82-101: one pass of the inner loop, and what follows it when the
\* loop is left; res is what WriteRoundWork returns
AggWrite ==
    /\ awPc = "inner"
    /\ IF ~chainRunning
       THEN /\ AfterWrite
            /\ awSnapshots' = "none"
            /\ UNCHANGED <<chainMainnet, chainRunning, chainState, CacheRound, workOffset,
                           roundWorks, crn, wrote, wlc>>
       ELSE IF chainMainnet /\ awSnapshots = "nil"
       THEN AggPanic /\ UNCHANGED AggVarsButPc
       ELSE \E res \in {"ok", "conflict", "error"} :
              LET works == IF chainMainnet /\ awSnapshots = "old" THEN "nil" ELSE awSnapshots
              IN IF res = "ok"
                 THEN /\ roundWorks' = roundWorks \cup {<<round, works>>}
                      /\ wrote' = TRUE
                      /\ AfterWrite
                      /\ awSnapshots' = "none"
                      /\ UNCHANGED <<chainMainnet, chainRunning, chainState, CacheRound,
                                     workOffset, crn, wlc>>
                 ELSE IF res = "conflict"
                 THEN /\ awSnapshots' = works
                      /\ UNCHANGED <<chainMainnet, chainRunning, chainState, CacheRound,
                                     workOffset, roundWorks, round, crn, wrote, awPc, wlc>>
                 ELSE /\ AggPanic
                      /\ awSnapshots' = works
                      /\ UNCHANGED <<chainMainnet, chainRunning, chainState, CacheRound,
                                     workOffset, roundWorks, round, crn, wrote>>
    /\ UNCHANGED <<genesisVars, mintVars, callVars, issueVars>>

\* chain.running is cleared
StopChain ==
    /\ awPc \in {"start", "outer", "inner"}
    /\ chainRunning
    /\ chainRunning' = FALSE
    /\ UNCHANGED <<chainMainnet, chainState, CacheRound, workOffset, roundWorks, round,
                   crn, awSnapshots, wrote, awPc, wlc, genesisVars, mintVars, callVars, issueVars>>

\* the chain loads its state
StateLoaded ==
    /\ awPc \in {"start", "outer", "inner"}
    /\ ~chainState
    /\ chainState' = TRUE
    /\ UNCHANGED <<chainMainnet, chainRunning, CacheRound, workOffset, roundWorks, round,
                   crn, awSnapshots, wrote, awPc, wlc, genesisVars, mintVars, callVars, issueVars>>

\* the chain's cache round moves on
CacheRoundAdvance ==
    /\ awPc \in {"start", "outer", "inner"}
    /\ chainState
    /\ CacheRound < MaxRound
    /\ CacheRound' = CacheRound + 1
    /\ UNCHANGED <<chainMainnet, chainRunning, chainState, workOffset, roundWorks, round,
                   crn, awSnapshots, wrote, awPc, wlc, genesisVars, mintVars, callVars, issueVars>>

AggInit ==
    /\ GenesisIdle
    /\ CallIdle
    /\ MintIdle
    /\ IssueIdle
    /\ chainMainnet \in BOOLEAN
    /\ chainRunning = TRUE
    /\ chainState \in BOOLEAN
    /\ CacheRound \in 0..1
    /\ workOffset \in 0..1
    /\ roundWorks = {}
    /\ round = 0
    /\ crn = 0
    /\ awSnapshots = "none"
    /\ wrote = FALSE
    /\ awPc = "start"
    /\ wlc = 0

AggNext ==
    \/ AggStart
    \/ AggIterate
    \/ AggWrite
    \/ StopChain
    \/ StateLoaded
    \/ CacheRoundAdvance

SpecAggregate == AggInit /\ [][AggNext]_vars

\* the two loops, each on its own, with the steps of a loop taken as long as
\* store calls and waits return, and the done case of MintLoop's select
\* taken once it is ready
LoopsInit == AggInit \/ MintInit

LoopsNext == AggNext \/ MintNext

SpecLoops ==
    /\ LoopsInit
    /\ [][LoopsNext]_vars
    /\ WF_vars(AggStart)
    /\ WF_vars(AggIterate)
    /\ WF_vars(AggWrite)
    /\ WF_vars(MintLoopReturn)

----------------------------------------------------------------------------
(* The issuance of the universal mint: the gate over a sequence of mint   *)
(* times, each mint recorded as the last distribution                     *)

\* the days from the last recorded batch to the next mint time
IssueGaps ==
    (0..MaxGap) \cup {MintYearBatches - 1, MintYearBatches, MintYearBatches + 1}

\* the hours of the day the gate is called at
IssueHours == {MainnetMintPeriodForkTimeBegin, KernelMintTimeBegin}

IssueInit ==
    /\ GenesisIdle
    /\ MintIdle
    /\ CallIdle
    /\ AggIdle
    /\ poolDist = NoDist
    /\ poolIssued = 0

\* a mint at a time of a later day: the gate's amount is recorded as the
\* last distribution
MintAt ==
    \E gap \in IssueGaps, hour \in IssueHours :
        LET timestamp == HourOfBatch(poolDist.batch + gap, hour)
            gate == checkUniversalMintPossibility(timestamp, FALSE, poolDist, FALSE)
        IN /\ poolDist.batch + gap <= MaxIssueBatch
           /\ gate[2] > 0
           /\ poolDist' = Dist(gate[1], gate[2], "UNIVERSAL")
           /\ poolIssued' = poolIssued + gate[2]
           /\ UNCHANGED <<genesisVars, mintVars, callVars, aggVars>>

\* PoolSize: the pool the node reports after the last distribution
PoolSize(dist) ==
    IF dist.group = "KERNELNODE" THEN poolSizeLegacy(dist.batch)
    ELSE poolSizeUniversal(dist.batch)

IssueNext == MintAt

SpecIssuance == IssueInit /\ [][IssueNext]_vars

----------------------------------------------------------------------------
(* Claims about the genesis loader *)

OpsOf(ops) == {ops[i][1] : i \in 1..Len(ops)}

\* a LoadGenesis call has just returned
LoadGenesisReturned == lgCalls' = lgCalls + 1

\* C6: once state["network"] holds an id it is never changed; a LoadGenesis
\* on a store that holds an id calls neither SnapshotsLoadGenesis nor
\* StateSet, and when StateGet has returned the stored id it returns success
\* if the computed id equals it and an error if it differs.
C6_NetworkIdWrittenOnce ==
    [][ /\ (stateNetwork # Absent => stateNetwork' = stateNetwork)
        /\ (LoadGenesisReturned /\ stateNetwork # Absent =>
               /\ OpsOf(lgOps') \subseteq {"StateGet"}
               /\ storeSnapshots' = storeSnapshots)
        /\ (LoadGenesisReturned /\ stateNetwork # Absent
              /\ lgOps' = <<Op("StateGet", FALSE)>> =>
               IF networkId' = stateNetwork
               THEN lgResult' = "ok"
               ELSE lgResult' = "invalid genesis for network") ]_vars

\* C6 witness: on an initialized store one LoadGenesis has returned success
\* for the stored id and a later one an error for another id.
C6_Witness ==
    /\ stateNetwork # Absent
    /\ lgCalls = 3
    /\ lgResult = "invalid genesis for network"
    /\ networkId # stateNetwork
    /\ Len(ConsensusNodes) = 3 * MinimumNodeCount
    /\ Len(storeSnapshots) = 1

\* C7: SnapshotsLoadGenesis completes successfully at most once, whatever
\* the store operations return.
C7_GenesisSnapshotsLoadedOnce == Len(storeSnapshots) <= 1

DuplicatedAddress(file) ==
    \E i, j \in 1..Len(file.nodes) :
        i # j /\ AddressString(file.nodes[i].address) = AddressString(file.nodes[j].address)

\* C8: a genesis file of 7 nodes in which two entries carry the same address
\* is rejected by readGenesis, and LoadGenesis makes no store operation and
\* no snapshot from it.
C8_DuplicatedAddressRejected ==
    (lgFile # 0 /\ Len(GenesisFiles[lgFile].nodes) = MinimumNodeCount
                /\ DuplicatedAddress(GenesisFiles[lgFile])) =>
        /\ lgResult \in {"duplicated genesis inputs", "invalid genesis input amount",
                         "invalid node key format"}
        /\ lgOps = << >>

\* the genesis violates the node count, the minimum balance or the view key rule
InvalidGenesis(file) ==
    \/ Len(file.nodes) # MinimumNodeCount
    \/ \E i \in 1..Len(file.nodes) :
          \/ file.nodes[i].balance < PledgeAmount * Unit
          \/ file.nodes[i].address.view # ViewKeyOf(file.nodes[i].address.spend)

GenesisErrors == {"invalid genesis inputs number", "invalid genesis input amount",
                  "duplicated genesis inputs", "invalid node key format"}

\* C9: a genesis with a node count other than 7, a balance below 10000 or a
\* view key that does not match makes LoadGenesis return an error before any
\* store operation, with state["network"], the stored snapshots and
\* node.ConsensusNodes unchanged; 6 nodes give "invalid genesis inputs number".
C9_InvalidGenesisIsSideEffectFree ==
    [][ (LoadGenesisReturned /\ GenesisFiles[lgFile'].readable
           /\ InvalidGenesis(GenesisFiles[lgFile'])) =>
          /\ lgResult' \in GenesisErrors
          /\ (Len(GenesisFiles[lgFile'].nodes) # MinimumNodeCount =>
                 lgResult' = "invalid genesis inputs number")
          /\ lgOps' = << >>
          /\ UNCHANGED <<stateNetwork, storeSnapshots, ConsensusNodes,
                         networkId, TopoCounter>> ]_vars

\* C9 witness: an initialized node has rejected a genesis of 6 nodes.
C9_Witness ==
    /\ lgFile # 0
    /\ Len(GenesisFiles[lgFile].nodes) = MinimumNodeCount - 1
    /\ lgResult = "invalid genesis inputs number"
    /\ stateNetwork # Absent
    /\ Len(storeSnapshots) = 1
    /\ Len(ConsensusNodes) = MinimumNodeCount

----------------------------------------------------------------------------
(* Claims about the gates, the distributor and the builders *)

\* the pool left for the year that follows y whole years, a tenth being
\* taken each year
RECURSIVE YearPool(_)
YearPool(y) == IF y = 0 THEN MintPool ELSE YearPool(y - 1) - YearPool(y - 1) \div 10

\* the daily share of the year containing batch b
DailyShare(b) == (YearPool(b \div 365) \div 10) \div 365

BatchAt(timestamp) == (timestamp - Epoch) \div 24
HourAt(timestamp) == (timestamp - Epoch) % 24

InUniversalWindow(timestamp) ==
    /\ timestamp > Epoch
    /\ HourAt(timestamp) >= KernelMintTimeBegin
    /\ HourAt(timestamp) <= KernelMintTimeEnd

InLegacyWindow(mainnet, timestamp) ==
    /\ timestamp > Epoch
    /\ IF mainnet /\ BatchAt(timestamp) < 72
       THEN HourAt(timestamp) >= 6 /\ HourAt(timestamp) <= 18
       ELSE HourAt(timestamp) >= KernelMintTimeBegin /\ HourAt(timestamp) <= KernelMintTimeEnd

\* C3: for a timestamp inside the mint window whose batch is greater than
\* dist.Batch, each gate returns (batch, per_batch * (batch - dist.Batch)),
\* per_batch being the daily share of the year containing batch (universal)
\* or nine times its tenth (legacy), the same for validateOnly true and false.
C3_CatchUpAmount ==
    (callOut.fn = "gate" /\ ~callIn.distErr /\ callIn.timestamp > Epoch
       /\ BatchAt(callIn.timestamp) > callIn.dist.batch) =>
      LET b == BatchAt(callIn.timestamp)
          gap == b - callIn.dist.batch
      IN /\ InUniversalWindow(callIn.timestamp) =>
              \A vo \in BOOLEAN : callOut.universal[vo] = <<b, DailyShare(b) * gap>>
         /\ InLegacyWindow(callIn.mainnet, callIn.timestamp) =>
              \A vo \in BOOLEAN :
                  callOut.legacy[vo] = <<b, ((DailyShare(b) \div 10) * 9) * gap>>

\* C3 witness: both gates have answered inside the window, in the second
\* year, for a batch several days after the last distribution.
C3_Witness ==
    /\ callOut.fn = "gate" /\ ~callIn.distErr
    /\ InUniversalWindow(callIn.timestamp)
    /\ InLegacyWindow(callIn.mainnet, callIn.timestamp)
    /\ BatchAt(callIn.timestamp) = 366
    /\ callIn.dist.batch = 72
    /\ callOut.universal[FALSE][2] = DailyShare(366) * 294
    /\ callOut.legacy[TRUE][2] > 0
    /\ callOut.legacy[TRUE][2] < callOut.universal[FALSE][2]

\* C4: every successful return of distributeKernelMintByWorks, in the even
\* split and in the clamped ratio case, has sum of Work <= base, and no
\* builder reaches its 'total > amount' panic.
C4_DistributorSumBound ==
    /\ (callOut.fn = "distribute" /\ callOut.r.kind = "ok") =>
           SumSeq(callOut.r.works) <= callIn.base
    /\ callOut.fn = "build" => ~(callOut.r.kind = "panic" /\ callOut.r.reason = "overshoot")

\* C4 witness: the distributor has split a base by clamped works, the floor
\* leaving a remainder.
C4_Witness ==
    /\ callOut.fn = "distribute" /\ callOut.r.kind = "ok"
    /\ callIn.timestamp \div HoursPerDay > Epoch \div HoursPerDay
    /\ callIn.rd.works[1] = <<40, 2>> /\ callIn.rd.works[2] = <<0, 3>>
    /\ SumSeq(callOut.r.works) < callIn.base
    /\ SumSeq(callOut.r.works) > 0

OutputAmounts(tx) == [i \in 1..Len(tx.outputs) |-> tx.outputs[i].amount]

\* C5: in every transaction returned by buildUniversalMintTransaction and by
\* the V2+ branch of buildLegacyKerneNodeMintTransaction the output amounts
\* sum to the amount of the mint input.
C5_OutputConservation ==
    (callOut.fn = "build" /\ callOut.r.kind = "tx" /\ callOut.r.tx.version = 2) =>
        SumSeq(OutputAmounts(callOut.r.tx)) = callOut.r.tx.amount

\* C5 witness: a universal transaction built with the legacy light pool
\* slash applied.
C5_Witness ==
    /\ callOut.fn = "build" /\ callOut.r.kind = "tx"
    /\ callIn.path = "universal" /\ callIn.mainnet /\ ~callIn.validateOnly
    /\ BatchAt(callIn.timestamp) = MainnetMintTransactionV3ForkBatch
    /\ callOut.r.tx.amount > DailyShare(MainnetMintTransactionV3ForkBatch)
    /\ callIn.sv.rd.works = SkewedWorks

----------------------------------------------------------------------------
(* Claims about the mint loop *)

StepsOf(out) == {out.steps[i] : i \in 1..Len(out.steps)}

\* C1: a universal mint transaction that was built for batch b and recorded
\* as the last MintDistribution (batch b, the amount of its mint input) is
\* re-derived with the same payload by the validation at the timestamp of
\* its snapshot, so validateMintSnapshot returns no error.
C1_ValidationRoundTrip ==
    (last.op = "validate" /\ last.snap.tx.group = "UNIVERSAL"
        /\ InUniversalWindow(last.snap.timestamp)
        /\ last.dist = Dist(last.snap.tx.batch, last.snap.tx.amount, "UNIVERSAL")) =>
      last.result = ""

\* C2: with validateOnly = false both gates return no mint for a timestamp
\* whose batch is at most the batch of the last MintDistribution, and a tick
\* at such a timestamp builds no mint transaction.
C2_NoReissuance ==
    /\ \A t \in {GraphTimestamp, GraphTimestamp - HoursPerDay} :
          BatchAt(t) <= LastOf(mintDists).batch =>
            /\ checkUniversalMintPossibility(t, FALSE, LastOf(mintDists), FALSE) = NoMint
            /\ checkLegacyMintPossibility(isMainnet, t, FALSE, LastOf(mintDists), FALSE)
                  = NoMint
    /\ (last.op = "tick" /\ BatchAt(last.timestamp) <= last.dist.batch) =>
          /\ last.out.result # "panic" => last.out.built.kind = "nil"
          /\ StepsOf(last.out) \subseteq {"ReadCustodian", "build"}

\* C2 witness: a mint was built, enqueued and recorded for its batch, and a
\* later tick of the same batch, inside the mint window and with no store
\* error, built nothing.
C2_Witness ==
    /\ last.op = "tick" /\ last.fail = "none"
    /\ Len(mintDists) = 2
    /\ ticks = 2
    /\ last.dist = mintDists[2]
    /\ BatchAt(last.timestamp) = last.dist.batch
    /\ InUniversalWindow(last.timestamp)
    /\ last.out.built.kind = "nil"
    /\ last.out.steps = <<"build">>

\* C10: whatever error a step of a tick returns, the mint loop does not
\* terminate, and the loop ends only on the done signal.
C10_LoopSurvivesEveryError ==
    [][ /\ (ticks' = ticks + 1 /\ last'.out.errs # {} => mlState' = "running")
        /\ (mlState = "running" /\ mlState' # "running" => done) ]_vars

\* C10, amended: an error returned by ReadLastMintDistribution, the
\* distributor, SignInput, Validate, CachePutTransaction or AppendSelfEmpty
\* leaves the mint loop running and nothing of the tick's later steps
\* happens; an error returned by ReadCustodian panics and ends the loop; the
\* loop returns only on the done signal.
C10_LoopSurvivesErrorsButReadCustodian ==
    [][ /\ (ticks' = ticks + 1 /\ last'.out.errs # {}
               /\ "ReadCustodian" \notin last'.out.errs =>
              /\ mlState' = "running"
              /\ mlc' = mlc
              /\ last'.out.result \in {"nil", "err"})
        /\ (ticks' = ticks + 1 /\ "ReadCustodian" \in last'.out.errs =>
              /\ mlState' = "panicked"
              /\ mlc' = mlc + 1
              /\ cache' = cache /\ appended' = appended)
        /\ (mlState = "running" /\ mlState' = "returned" => done) ]_vars

\* C10 witness: a tick failed at AppendSelfEmpty after caching its
\* transaction, the loop went on, and the next tick was handled and failed
\* at SignInput.
C10_Witness ==
    /\ ticks = 2
    /\ mlState = "running"
    /\ last.op = "tick" /\ last.out.errs = {"SignInput"}
    /\ cache # {}
    /\ appended = << >>

\* what the gate of a tick at the timestamp gives over the recorded mints
GateOfTick(timestamp, dists) ==
    IF ReadCustodian(timestamp) = "nil" /\ isMainnet
    THEN checkLegacyMintPossibility(isMainnet, timestamp, FALSE, LastOf(dists), FALSE)
    ELSE checkUniversalMintPossibility(timestamp, FALSE, LastOf(dists), FALSE)

Pipeline == <<"build", "SignInput", "Validate", "CachePutTransaction", "AppendSelfEmpty">>

\* C21: a tick appends a snapshot only if in that tick the gate yielded a
\* mint and the build, SignInput, Validate and CachePutTransaction succeeded,
\* in this order; if the distributor fails, or any step before the append,
\* nothing is cached or appended and the gate yields the same batch again
\* on the next tick.
C21_AppendOnlyAfterPipeline ==
    [][ ticks' = ticks + 1 =>
          LET out == last'.out
              early == {"ReadCustodian", "ReadLastMintDistribution", "distributor",
                        "SignInput", "Validate"}
          IN /\ appended' # appended =>
                  /\ out.errs = {}
                  /\ out.steps = Pipeline
                  /\ out.built.kind = "tx"
                  /\ GateOfTick(GraphTimestamp, mintDists)[2] > 0
                  /\ out.built.tx.batch = GateOfTick(GraphTimestamp, mintDists)[1]
                  /\ PayloadHash(out.built.tx) \in cache'
                  /\ appended' = Append(appended, Snapshot(out.built.tx, GraphTimestamp))
             /\ "AppendSelfEmpty" \in StepsOf(out) =>
                  out.steps = Pipeline /\ out.errs \subseteq {"AppendSelfEmpty"}
             /\ out.errs \cap early # {} => cache' = cache /\ appended' = appended
             /\ out.errs # {} => appended' = appended
             /\ "distributor" \in out.errs =>
                  /\ GateOfTick(GraphTimestamp, mintDists)[2] > 0
                  /\ GateOfTick(GraphTimestamp', mintDists')
                        = GateOfTick(GraphTimestamp, mintDists) ]_vars

\* C21 witness: the distributor reported 'not ready yet' in a tick whose
\* gate yielded a mint, nothing is cached or appended, and the gate yields
\* the same batch for the next tick.
C21_Witness ==
    /\ last.op = "tick" /\ last.fail = "not ready yet"
    /\ last.out.errs = {"distributor"}
    /\ last.timestamp = GraphTimestamp
    /\ ticks = 1 /\ mlState = "running"
    /\ cache = {} /\ appended = << >>
    /\ GateOfTick(GraphTimestamp, mintDists)[1] = BatchAt(GraphTimestamp)
    /\ GateOfTick(GraphTimestamp, mintDists)[2] > 0
    /\ TickOutcome("none").steps = Pipeline

----------------------------------------------------------------------------
(* Claims about the split of the universal mint *)

\* the amount the universal gate gave the build of the call
GateAmount ==
    checkUniversalMintPossibility(callIn.timestamp, callIn.validateOnly,
                                  callIn.sv.dist, callIn.sv.distErr)[2]

\* the outputs of the built transaction to the nodes, and to the custodian
NodeAmounts == [i \in 1..NumNodes |-> callOut.r.tx.outputs[i].amount]
CustodianAmount == callOut.r.tx.outputs[NumNodes + 1].amount

UniversalBuilt ==
    callOut.fn = "build" /\ callIn.path = "universal" /\ callOut.r.kind = "tx"

SlashBatch ==
    checkUniversalMintPossibility(callIn.timestamp, callIn.validateOnly,
                                  callIn.sv.dist, callIn.sv.distErr)[1]

SlashPrevious == ReadMintDistributions(callIn.sv.dists, SlashBatch - 1, 1)

PreviousRecorded == Len(SlashPrevious) > 0 /\ SlashPrevious[1].batch = SlashBatch - 1

LightSlashOf(old) == poolSizeLegacy(old) - poolSizeUniversal(old)

\* a universal build on mainnet at or after the fork batch whose gate
\* yielded a mint and whose distributor succeeded
SlashCase ==
    /\ callOut.fn = "build" /\ callIn.path = "universal" /\ callIn.mainnet
    /\ GateAmount > 0
    /\ SlashBatch >= MainnetMintTransactionV3ForkBatch
    /\ distributeKernelMintByWorks(NumNodes, (GateAmount \div 10) * 5,
                                   callIn.timestamp, callIn.sv.rd).kind = "ok"

\* C22: on mainnet with batch >= 1313 the universal builder adds
\* poolSizeLegacy(prev) - poolSizeUniversal(prev) to the mint input amount
\* exactly when the distribution recorded for the previous batch is of
\* another group than UNIVERSAL, and otherwise leaves the amount unchanged;
\* after a first universal record the next batch gets no credit.
C22_OneShotSlash ==
    SlashCase =>
        /\ callOut.r.kind = "tx"
        /\ callOut.r.tx.amount =
             IF PreviousRecorded /\ SlashPrevious[1].group # "UNIVERSAL"
             THEN GateAmount + LightSlashOf(SlashBatch - 1)
             ELSE GateAmount

----------------------------------------------------------------------------
(* Claims about the mint window *)

\* C18: both gates return no mint when timestamp <= Epoch, when batch < 1 or
\* when the hour of day is outside the window, whose bounds are inclusive:
\* [6, 18] for the legacy gate on mainnet with batch < 72, the configured
\* [KernelMintTimeBegin, KernelMintTimeEnd] otherwise. Inside the window a
\* batch after dist.Batch is minted; legacy mainnet with dist.Batch = 0 gives
\* no mint at Epoch+25h and batch 1 with one day's share at Epoch+30h.
C18_MintWindow ==
    callOut.fn = "gate" =>
      LET t == callIn.timestamp
          b == BatchAt(t)
          insideU == InUniversalWindow(t) /\ b >= 1
          insideL == InLegacyWindow(callIn.mainnet, t) /\ b >= 1
          fresh == ~callIn.distErr /\ b > callIn.dist.batch
      IN /\ ~insideU => \A vo \in BOOLEAN : callOut.universal[vo] = NoMint
         /\ ~insideL => \A vo \in BOOLEAN : callOut.legacy[vo] = NoMint
         /\ insideU /\ fresh => \A vo \in BOOLEAN : callOut.universal[vo][1] = b
         /\ insideL /\ fresh => \A vo \in BOOLEAN : callOut.legacy[vo][1] = b
         /\ (callIn.mainnet /\ ~callIn.distErr /\ callIn.dist.batch = 0) =>
               /\ t = Epoch + 25 => callOut.legacy[FALSE] = NoMint
               /\ t = Epoch + 30 =>
                     callOut.legacy[FALSE] = <<1, (DailyShare(1) \div 10) * 9>>

\* C18 witness: the legacy gate on mainnet at Epoch+30h, the first hour of
\* the window [6, 18], with no distribution recorded: batch 1 with one day's
\* share, while the universal gate, whose window opens later, gives no mint.
C18_Witness ==
    /\ callOut.fn = "gate"
    /\ callIn.mainnet /\ ~callIn.distErr
    /\ callIn.dist = NoDist
    /\ callIn.timestamp = Epoch + 30
    /\ callOut.legacy[FALSE] = <<1, (DailyShare(1) \div 10) * 9>>
    /\ callOut.legacy[FALSE][2] > 0
    /\ callOut.universal[FALSE] = NoMint

----------------------------------------------------------------------------
(* Claims about the pool sizes *)

\* C16: poolSizeUniversal(b+1) <= poolSizeUniversal(b) and
\* poolSizeLegacy(b+1) <= poolSizeLegacy(b) for every batch b >= 0, and both
\* are at most MintPool.
C16_PoolMonotonicity ==
    callOut.fn = "pool" =>
      /\ callOut.universalNext <= callOut.universal
      /\ callOut.legacyNext <= callOut.legacy
      /\ callOut.universal <= MintPool
      /\ callOut.legacy <= MintPool
      /\ callOut.universalNext <= MintPool
      /\ callOut.legacyNext <= MintPool

\* C16 witness: the pool sizes across the first year boundary of a later
\* year, batch 2*365-1 to 2*365, both strictly decreasing.
C16_Witness ==
    /\ callOut.fn = "pool"
    /\ callIn.batch = 2 * MintYearBatches - 1
    /\ callOut.universalNext < callOut.universal
    /\ callOut.legacyNext < callOut.legacy
    /\ callOut.universal < MintPool

\* C17: poolSizeLegacy(b) >= poolSizeUniversal(b) for every batch b > 0, and
\* no universal build fails on the subtraction of the slash credit.
C17_LegacyUniversalGap ==
    /\ (callOut.fn = "pool" /\ callIn.batch > 0) => callOut.legacy >= callOut.universal
    /\ callOut.fn = "build" =>
          ~(callOut.r.kind = "panic" /\ callOut.r.reason = "negative subtraction")

\* C17 witness: on the last day before the transaction V3 fork the legacy
\* pool is strictly above the universal pool.
C17_Witness ==
    /\ callOut.fn = "pool"
    /\ callIn.batch = MainnetMintTransactionV3ForkBatch - 1
    /\ callOut.legacy > callOut.universal

----------------------------------------------------------------------------
(* Claims about the distributor *)

NonBootstrapDay(timestamp) == timestamp \div HoursPerDay > Epoch \div HoursPerDay

RawWorks(works) == [i \in 1..Len(works) |-> RawWork(works[i])]

\* C13: on a day after the bootstrap day a node whose raw work is 0 receives
\* a final share of 0 from distributeKernelMintByWorks.
C13_ZeroWorkNodesGetNothing ==
    (callOut.fn = "distribute" /\ callOut.r.kind = "ok"
        /\ NonBootstrapDay(callIn.timestamp)) =>
      \A i \in 1..NumNodes :
          RawWorks(callIn.rd.works)[i] = 0 => callOut.r.works[i] = 0

\* C14: applying the clamp step with the same avg to an already-clamped
\* vector leaves every node's work unchanged.
C14_ClampIdempotence ==
    callOut.fn = "clamp" => callOut.twice = callOut.once

\* C14, amended: a second clamp step with the same avg leaves unchanged
\* every clamped work below avg and replaces every clamped work x >= avg by
\* x/6 + 5*avg/6, which is at most x.
C14_SecondClampFixesOnlyBelowAvg ==
    callOut.fn = "clamp" =>
      \A i \in 1..Len(callIn.works) :
          LET x == callOut.once[i]
              y == callOut.twice[i]
          IN /\ x < callIn.avg => y = x
             /\ x >= callIn.avg => y = x \div 6 + (5 * callIn.avg) \div 6 /\ y <= x

\* C14 witness: with avg = 6 a raw work of 42 is clamped to 12 and then to
\* 7, while a raw work of 3 stays 3.
C14_Witness ==
    /\ callOut.fn = "clamp"
    /\ callIn.avg = 6
    /\ callIn.works = <<42, 3>>
    /\ callOut.once = <<12, 3>>
    /\ callOut.twice = <<7, 3>>

\* the number of nodes with nonzero raw work
ValidNodes(works) == Cardinality({i \in 1..Len(works) : RawWorks(works)[i] # 0})

\* C19: on a day after the bootstrap day, whenever at most two nodes have
\* nonzero raw work distributeKernelMintByWorks returns an error, whatever
\* the threshold, and does not panic.
C19_TooFewWorkingNodesIsAnError ==
    (callOut.fn = "distribute" /\ NonBootstrapDay(callIn.timestamp)
        /\ ValidNodes(callIn.rd.works) <= 2) =>
      callOut.r.kind = "err"

\* the average of the nonzero raw works without the least and the greatest
AvgOf(raw) ==
    LET nz == {i \in 1..Len(raw) : raw[i] # 0}
        mn == CHOOSE x \in {raw[i] : i \in nz} : \A j \in nz : x <= raw[j]
        mx == CHOOSE x \in {raw[i] : i \in nz} : \A j \in nz : x >= raw[j]
    IN (SumSeq(raw) - mn - mx) \div (Cardinality(nz) - 2)

\* the clamp of a raw work x against avg, as a table
ClampOf(x, avg) ==
    CASE x >= 7 * avg -> 2 * avg
      [] x >= avg /\ x < 7 * avg -> x \div 6 + (5 * avg) \div 6
      [] x > avg \div 7 /\ x < avg -> x
      [] x <= avg \div 7 -> avg \div 7

\* C20: on a day after the bootstrap day each node's share returned by
\* distributeKernelMintByWorks is floor(clamped_i * base / totalW), clamped_i
\* being the clamp of its raw work against avg = (sum of nonzero raw works -
\* min - max) / (valid - 2) and totalW the sum of the clamped works.
C20_ClampFunction ==
    (callOut.fn = "distribute" /\ callOut.r.kind = "ok"
        /\ NonBootstrapDay(callIn.timestamp)) =>
      LET raw == RawWorks(callIn.rd.works)
          avg == AvgOf(raw)
          clamped == [i \in 1..NumNodes |-> ClampOf(raw[i], avg)]
          totalW == SumSeq(clamped)
      IN \A i \in 1..NumNodes :
            callOut.r.works[i] = (clamped[i] * callIn.base) \div totalW

\* C20 witness: a distribution in which every row of the clamp table applies
\* to some node and every node receives a share.
C20_Witness ==
    /\ callOut.fn = "distribute" /\ callOut.r.kind = "ok"
    /\ NonBootstrapDay(callIn.timestamp)
    /\ LET raw == RawWorks(callIn.rd.works)
           avg == AvgOf(raw)
       IN /\ \E i \in 1..NumNodes : raw[i] >= 7 * avg
          /\ \E i \in 1..NumNodes : raw[i] >= avg /\ raw[i] < 7 * avg
          /\ \E i \in 1..NumNodes : raw[i] > avg \div 7 /\ raw[i] < avg
          /\ \E i \in 1..NumNodes : raw[i] <= avg \div 7
    /\ \A i \in 1..NumNodes : callOut.r.works[i] > 0

----------------------------------------------------------------------------
(* Claims about the aggregation loop and the shutdown of the loops *)

\* C11: the cursor of AggregateMintWork never decreases, changes only by +1,
\* and moves from r to r+1 only after WriteRoundWork for r has returned
\* success in that iteration.
C11_CursorOrdering ==
    [][ awPc # "start" =>
          \/ round' = round
          \/ round' = round + 1 /\ wrote' ]_vars

\* C12: once node.done is closed MintLoop eventually stops with node.mlc
\* closed, once chain.running is cleared AggregateMintWork eventually stops
\* with chain.wlc closed, and neither notifier is closed twice.
C12_ShutdownLiveness ==
    /\ [](mlc <= 1 /\ wlc <= 1)
    /\ (done ~> (mlState # "running" /\ mlc = 1))
    /\ ((awPc # "idle" /\ ~chainRunning) ~> (awPc \in {"stopped", "panicked"} /\ wlc = 1))

\* C12 witness: AggregateMintWork was stopped inside its inner loop before
\* any write succeeded (the cursor moved on with nothing written), left both
\* loops and closed chain.wlc.
C12_Witness ==
    /\ awPc = "stopped"
    /\ wlc = 1
    /\ ~chainRunning
    /\ roundWorks = {}
    /\ round > workOffset

----------------------------------------------------------------------------
(* Claims about the issuance of the universal mint *)

\* the share of one day of the year of the batch
DayShareOf(batch) ==
    (PoolAfterYears(MintPool, batch \div MintYearBatches) \div MintYearShares)
        \div MintYearBatches

\* C23: from a last distribution at batch 0 and over any sequence of mint
\* times, the sum of the amounts the gate returned and that were recorded
\* up to the last batch b is at most MintPool - poolSizeUniversal(b): the
\* pool PoolSize() reports never exceeds what is unissued, and the issuance
\* never exceeds MintPool.
C23_IssuanceWithinPool ==
    /\ poolIssued <= MintPool - poolSizeUniversal(poolDist.batch)
    /\ PoolSize(poolDist) <= MintPool - poolIssued
    /\ poolIssued <= MintPool

\* C23 witness: mints were recorded into the third year, the last of them
\* for several days at once, and the issuance is below the pool model.
C23_Witness ==
    /\ poolDist.batch > 2 * MintYearBatches
    /\ poolDist.group = "UNIVERSAL"
    /\ poolDist.amount > DayShareOf(poolDist.batch)
    /\ poolIssued > (MintPool \div MintYearShares)
    /\ poolIssued < MintPool - poolSizeUniversal(poolDist.batch)

=============================================================================
